---- MODULE Spec2Model ----
(***************************************************************************)
(* A model of pylinalg's quaternion_* and vector_* functions               *)
(* (src/pylinalg/func/quaternion.py, src/pylinalg/func/vector.py).         *)
(*                                                                         *)
(* Arrays live in a heap of buffers so that object identity (the `out`     *)
(* convention, np.asarray returning its argument, aliasing) is part of     *)
(* the state.  An array is a record [dtype, shape, data] with `data` the   *)
(* row-major flattening.                                                   *)
(*                                                                         *)
(* Numbers are exact: a float is modelled as the real number               *)
(*      (n / d) * sqrt(r) * pi^u                                           *)
(* written <<n, d, r, u>> in canonical form, with d = 0 for the IEEE       *)
(* specials (NaN = <<0,0,1,0>>, +-Inf = <<+-1,0,1,0>>).  Rounding error    *)
(* and signed zeros are not modelled.  An operation whose exact result     *)
(* has no such form is undefined in the model (a CHOOSE over the empty     *)
(* set), and the input sets below are chosen so that it never happens.     *)
(***************************************************************************)
EXTENDS Integers, Sequences, FiniteSets

----------------------------------------------------------------------------
(* Exact numbers *)

Abs(i) == IF i < 0 THEN -i ELSE i

Sgn(i) == IF i < 0 THEN -1 ELSE IF i = 0 THEN 0 ELSE 1

RECURSIVE GCD(_, _)
GCD(a, b) == IF b = 0 THEN a ELSE GCD(b, a % b)

\* the largest k with k*k dividing m (m >= 1)
SquarePart(m) ==
    CHOOSE k \in 1..m :
        /\ m % (k * k) = 0
        /\ \A j \in (k + 1)..m : j * j > m \/ m % (j * j) # 0

Undefined == CHOOSE x \in {} : TRUE

NaN == <<0, 0, 1, 0>>
PosInf == <<1, 0, 1, 0>>
NegInf == <<-1, 0, 1, 0>>
Zero == <<0, 1, 1, 0>>
One == <<1, 1, 1, 0>>
Two == <<2, 1, 1, 0>>
MinusOne == <<-1, 1, 1, 0>>

\* canonical form of (n / d) * sqrt(r) * pi^u
Mk(n, d, r, u) ==
    IF d = 0 THEN <<Sgn(n), 0, 1, 0>>
    ELSE IF n = 0 THEN Zero
    ELSE LET k == SquarePart(r)
             nn == n * k * Sgn(d)
             dd == Abs(d)
             g == GCD(Abs(nn), dd)
         IN <<nn \div g, dd \div g, r \div (k * k), u>>

Int2Num(i) == Mk(i, 1, 1, 0)
Rat(n, d) == Mk(n, d, 1, 0)
PiTimes(n, d) == Mk(n, d, 1, 1)

IsNaN(x) == x = NaN
IsInf(x) == x[2] = 0 /\ x[1] # 0
IsFinite(x) == x[2] # 0
IsIntegral(x) == IsFinite(x) /\ x[2] = 1 /\ x[3] = 1 /\ x[4] = 0

Neg(x) == <<-x[1], x[2], x[3], x[4]>>

Mul(x, y) ==
    IF IsNaN(x) \/ IsNaN(y) THEN NaN
    ELSE IF IsInf(x) \/ IsInf(y) THEN Mk(x[1] * y[1], 0, 1, 0)
    ELSE Mk(x[1] * y[1], x[2] * y[2], x[3] * y[3], x[4] + y[4])

Add(x, y) ==
    IF IsNaN(x) \/ IsNaN(y) THEN NaN
    ELSE IF IsInf(x) THEN (IF IsInf(y) /\ y # x THEN NaN ELSE x)
    ELSE IF IsInf(y) THEN y
    ELSE IF x = Zero THEN y
    ELSE IF y = Zero THEN x
    ELSE IF x[3] = y[3] /\ x[4] = y[4]
         THEN Mk(x[1] * y[2] + y[1] * x[2], x[2] * y[2], x[3], x[4])
         ELSE Undefined

Sub(x, y) == Add(x, Neg(y))

Div(x, y) ==
    IF IsNaN(x) \/ IsNaN(y) THEN NaN
    ELSE IF IsInf(y) THEN (IF IsInf(x) THEN NaN ELSE Zero)
    ELSE IF y = Zero THEN Mk(x[1], 0, 1, 0)
    ELSE IF IsInf(x) THEN Mk(x[1] * y[1], 0, 1, 0)
    ELSE Mk(x[1] * y[2], x[2] * y[1] * y[3], x[3] * y[3], x[4] - y[4])

Sqrt(x) ==
    IF IsNaN(x) \/ x[1] < 0 THEN NaN
    ELSE IF IsInf(x) THEN PosInf
    ELSE IF x = Zero THEN Zero
    ELSE IF x[3] = 1 /\ x[4] = 0 THEN Mk(1, x[2], x[1] * x[2], 0)
    ELSE Undefined

Sign(x) == IF IsNaN(x) THEN NaN ELSE Int2Num(Sgn(x[1]))

\* multiples of pi/4, as the index k of k * pi/4 modulo a full turn
IsEighthTurn(x) == x = Zero \/ (IsFinite(x) /\ x[3] = 1 /\ x[4] = 1 /\ 4 % x[2] = 0)

EighthTurns(x) == IF x = Zero THEN 0 ELSE (x[1] * (4 \div x[2])) % 8

HalfSqrt2 == Mk(1, 2, 2, 0)

CosTable == <<One, HalfSqrt2, Zero, Neg(HalfSqrt2), MinusOne, Neg(HalfSqrt2), Zero, HalfSqrt2>>

SinTable == <<Zero, HalfSqrt2, One, HalfSqrt2, Zero, Neg(HalfSqrt2), MinusOne, Neg(HalfSqrt2)>>

Cos(x) ==
    IF ~IsFinite(x) THEN NaN
    ELSE IF IsEighthTurn(x) THEN CosTable[EighthTurns(x) + 1]
    ELSE Undefined

Sin(x) ==
    IF ~IsFinite(x) THEN NaN
    ELSE IF IsEighthTurn(x) THEN SinTable[EighthTurns(x) + 1]
    ELSE Undefined

ArccosArgs == {One, HalfSqrt2, Zero, Neg(HalfSqrt2), MinusOne}

Arccos(x) ==
    IF ~IsFinite(x) THEN NaN
    ELSE IF x = One THEN Zero
    ELSE IF x = HalfSqrt2 THEN PiTimes(1, 4)
    ELSE IF x = Zero THEN PiTimes(1, 2)
    ELSE IF x = Neg(HalfSqrt2) THEN PiTimes(3, 4)
    ELSE IF x = MinusOne THEN PiTimes(1, 1)
    ELSE Undefined

\* np.arctan2(y, x) for y >= 0
Arctan2(y, x) ==
    IF IsNaN(y) \/ IsNaN(x) THEN NaN
    ELSE IF y = Zero THEN (IF x[1] < 0 THEN PiTimes(1, 1) ELSE Zero)
    ELSE IF x = Zero THEN PiTimes(1, 2)
    ELSE IF x = y THEN PiTimes(1, 4)
    ELSE IF x = Neg(y) THEN PiTimes(3, 4)
    ELSE Undefined

----------------------------------------------------------------------------
(* Arrays and the heap *)

\* element types; np.asarray(x, dtype=float) asks for "f8"
DTypes == {"f8", "f4", "i8"}

RECURSIVE Prod(_)
Prod(shape) == IF shape = <<>> THEN 1 ELSE Head(shape) * Prod(Tail(shape))

Front(s) == SubSeq(s, 1, Len(s) - 1)

Last(s) == s[Len(s)]

\* store of a value into a buffer of the given element type
Cast(x, dtype) ==
    IF dtype # "i8" \/ IsIntegral(x) THEN x
    ELSE IF IsFinite(x) /\ x[3] = 1 /\ x[4] = 0
         THEN Int2Num(Sgn(x[1]) * (Abs(x[1]) \div x[2]))
         ELSE Undefined

CastAll(data, dtype) == [i \in 1..Len(data) |-> Cast(data[i], dtype)]

\* NumPy type promotion of two element types
Promote(d1, d2) ==
    IF d1 = d2 THEN d1
    ELSE IF "i8" \in {d1, d2} \/ "f8" \in {d1, d2} THEN "f8"
    ELSE "f4"

\* np.empty(shape, dtype=dtype): the contents are whatever the memory held
\* (g, which read as an integer is some integer)
Empty(shape, dtype, g) ==
    [dtype |-> IF dtype = "none" THEN "f8" ELSE dtype,
     shape |-> shape,
     data |-> [i \in 1..Prod(shape) |->
                 IF dtype = "i8" /\ ~IsIntegral(g) THEN MinusOne ELSE g]]

\* np.empty_like(a, dtype=dtype, shape=shape)
EmptyLike(a, shape, dtype, g) ==
    Empty(shape, IF dtype = "none" THEN a.dtype ELSE dtype, g)

\* a call's outcome: the heap it leaves and the buffer it returns, or the
\* exception it raises (then ret = 0)
Alloc(h, arr) == [h |-> Append(h, arr), ret |-> Len(h) + 1, err |-> "none"]

Outcome(h, ret) == [h |-> h, ret |-> ret, err |-> "none"]

Raise(h, e) == [h |-> h, ret |-> 0, err |-> e]

Store(h, id, data) == [h EXCEPT ![id].data = CastAll(data, h[id].dtype)]

\* a variant that takes `out` only when its element type is the one asked for
WithOutOfSameType(h, out, arr) ==
    IF out = 0 \/ h[out].dtype # arr.dtype THEN Alloc(h, arr) ELSE Outcome(h, out)

\* `out` when given, else the freshly allocated array
WithOut(h, out, arr) == IF out = 0 THEN Alloc(h, arr) ELSE Outcome(h, out)

\* np.asarray(x, dtype=float) returns x itself when x is already float64
IsFloat64(a) == a.dtype = "f8"

RECURSIVE SumSeq(_)
SumSeq(s) == IF s = <<>> THEN Zero ELSE Add(SumSeq(Front(s)), Last(s))

\* np.linalg.norm of one vector
Norm(v) == Sqrt(SumSeq([i \in 1..Len(v) |-> Mul(v[i], v[i])]))

\* np.dot of two vectors of equal length
Dot(a, b) == SumSeq([i \in 1..Len(a) |-> Mul(a[i], b[i])])

\* np.cross of two 3-vectors
Cross(a, b) ==
    << Sub(Mul(a[2], b[3]), Mul(a[3], b[2])),
       Sub(Mul(a[3], b[1]), Mul(a[1], b[3])),
       Sub(Mul(a[1], b[2]), Mul(a[2], b[1])) >>

\* row r (from 0) of an array whose last axis has length n
Row(data, r, n) == SubSeq(data, r * n + 1, r * n + n)

----------------------------------------------------------------------------
(* quaternion.py *)

\* the three rows of the rotation block, each padded to the row of the matrix
RotationBlock(xx, xy, xz, yy, yz, zz, wx, wy, wz) ==
    << Sub(One, Add(yy, zz)), Sub(xy, wz), Add(xz, wy), Zero,
       Add(xy, wz), Sub(One, Add(xx, zz)), Sub(yz, wx), Zero,
       Sub(xz, wy), Add(yz, wx), Sub(One, Add(xx, yy)), Zero >>

RotationProducts(x, y, z, w, x2, y2, z2) ==
    RotationBlock(Mul(x, x2), Mul(x, y2), Mul(x, z2), Mul(y, y2), Mul(y, z2),
                  Mul(z, z2), Mul(w, x2), Mul(w, y2), Mul(w, z2))

\* the rotation entries of one matrix from its quaternion (x, y, z, w)
RotationEntries(q) ==
    RotationProducts(q[1], q[2], q[3], q[4], Mul(q[1], Two), Mul(q[2], Two), Mul(q[3], Two))

\* out[:] = 0
Zeroed(size) == [i \in 1..size |-> Zero]

\* a variant whose view covers the first matrix only
WithDiagonalOfFirst(data, n_matrices) ==
    [i \in 1..Len(data) |->
        IF \E j \in 0..3 : i - 1 = 5 * j THEN One ELSE data[i]]

\* diagonal[:] = 1 through the view of shape (n_matrices, 4), strides (16, 5)
WithDiagonal(data, n_matrices) ==
    [i \in 1..Len(data) |->
        IF \E m \in 0..(n_matrices - 1), j \in 0..3 : i - 1 = 16 * m + 5 * j
        THEN One ELSE data[i]]

\* out[..., r, c] = ... for r, c < 3
WithRotation(data, qdata, n_matrices) ==
    [i \in 1..Len(data) |->
        IF (i - 1) \div 16 < n_matrices /\ (i - 1) % 16 < 12 /\ (i - 1) % 4 < 3
        THEN RotationEntries(Row(qdata, (i - 1) \div 16, 4))[((i - 1) % 16) + 1]
        ELSE data[i]]

ToMatrixInto(r, q) ==
    Outcome(Store(r.h, r.ret,
                  WithRotation(WithDiagonal(Zeroed(Len(r.h[r.ret].data)),
                                            Prod(Front(q.shape))),
                               q.data, Prod(Front(q.shape)))),
            r.ret)

quaternion_to_matrix(h, quaternion, out, dtype, g) ==
    ToMatrixInto(WithOut(h, out, Empty(Front(h[quaternion].shape) \o <<4, 4>>, dtype, g)),
                 h[quaternion])

\* a variant with the cross product of b and a
MultiplyIntoCrossReversed(r, A, B) ==
    Outcome(Store(r.h, r.ret,
                  [i \in 1..4 |->
                     IF i < 4
                     THEN Add(Add(Mul(A[4], B[i]), Mul(B[4], A[i])),
                              Cross(SubSeq(B, 1, 3), SubSeq(A, 1, 3))[i])
                     ELSE Sub(Mul(A[4], B[4]), Dot(SubSeq(A, 1, 3), SubSeq(B, 1, 3)))]),
            r.ret)

\* xyz and w are computed from a and b, then written to out
MultiplyInto(r, A, B) ==
    Outcome(Store(r.h, r.ret,
                  [i \in 1..4 |->
                     IF i < 4
                     THEN Add(Add(Mul(A[4], B[i]), Mul(B[4], A[i])),
                              Cross(SubSeq(A, 1, 3), SubSeq(B, 1, 3))[i])
                     ELSE Sub(Mul(A[4], B[4]), Dot(SubSeq(A, 1, 3), SubSeq(B, 1, 3)))]),
            r.ret)

\* out[:3] = xyz alone, out[3] keeping what it held
VectorPartStored(r, A, B) ==
    Outcome(Store(r.h, r.ret,
                  [i \in 1..4 |->
                     IF i < 4
                     THEN Add(Add(Mul(A[4], B[i]), Mul(B[4], A[i])),
                              Cross(SubSeq(A, 1, 3), SubSeq(B, 1, 3))[i])
                     ELSE r.h[r.ret].data[4]]),
            r.ret)

\* out[3] = w alone, w computed from a and b as the heap of r holds them
ScalarPartStored(r, a, b) ==
    Outcome(Store(r.h, r.ret,
                  [i \in 1..4 |->
                     IF i < 4 THEN r.h[r.ret].data[i]
                     ELSE Sub(Mul(r.h[a].data[4], r.h[b].data[4]),
                              Dot(SubSeq(r.h[a].data, 1, 3), SubSeq(r.h[b].data, 1, 3)))]),
            r.ret)

\* a variant that writes out[:3] before it computes w
quaternion_multiply_writing_early(h, a, b, out, dtype, g) ==
    ScalarPartStored(VectorPartStored(WithOut(h, out, Empty(<<4>>, dtype, g)),
                                      h[a].data, h[b].data),
                     a, b)

quaternion_multiply(h, a, b, out, dtype, g) ==
    MultiplyInto(WithOut(h, out, Empty(<<4>>, dtype, g)), h[a].data, h[b].data)

\* out[..., :3] = axis * np.sin(angle / 2); out[..., 3] = np.cos(angle / 2)
AxisAngleWrite(h1, o, normalized, half) ==
    Outcome(Store(h1, o, [i \in 1..4 |->
                            IF i < 4 THEN Mul(normalized[i], Sin(half)) ELSE Cos(half)]),
            o)

\* axis /= np.linalg.norm(axis, axis=-1), on the caller's array when
\* np.asarray(axis, dtype=float) is that array
AxisAngleNormalized(hr, o, axis, normalized, half) ==
    AxisAngleWrite(IF IsFloat64(hr[axis]) THEN Store(hr, axis, normalized) ELSE hr,
                   o, normalized, half)

AxisAngleInto(r, axis, norm, angle) ==
    AxisAngleNormalized(r.h, r.ret, axis,
                        [i \in 1..3 |-> Div(r.h[axis].data[i], norm)],
                        Div(angle, Two))

quaternion_make_from_axis_angle(h, axis, angle, out, dtype, g) ==
    AxisAngleInto(WithOut(h, out, Empty(<<4>>, dtype, g)), axis, Norm(h[axis].data), angle)

\* a variant that writes the z == 0 rows before the y == 0 rows
FallbackAxisYLast(template, g) ==
    LET y_zero == template[2] = Zero
        z_zero == template[3] = Zero
        both_nonzero == ~(y_zero \/ z_zero)
        f0 == <<g, g, g>>
        f1 == IF z_zero THEN <<Zero, Zero, One>> ELSE f0
        f2 == IF y_zero THEN <<Zero, One, Zero>> ELSE f1
    IN IF both_nonzero
       THEN << Mul(Zero, template[1]), Mul(MinusOne, template[3]), Mul(One, template[2]) >>
       ELSE f2

\* the replacement axis for a source parallel to the target
FallbackAxis(template, g) ==
    LET y_zero == template[2] = Zero
        z_zero == template[3] = Zero
        both_nonzero == ~(y_zero \/ z_zero)
        f0 == <<g, g, g>>
        f1 == IF y_zero THEN <<Zero, One, Zero>> ELSE f0
        f2 == IF z_zero THEN <<Zero, Zero, One>> ELSE f1
    IN IF both_nonzero
       THEN << Mul(Zero, template[1]), Mul(MinusOne, template[3]), Mul(One, template[2]) >>
       ELSE f2

\* a variant without the replacement of a zero axis
UnitVectorsAxisAsCrossed(S, T, g) == Cross(S, T)

\* the local `axis` when quaternion_make_from_unit_vectors delegates
UnitVectorsAxis(S, T, g) ==
    IF Norm(Cross(S, T)) = Zero THEN FallbackAxis(S, g) ELSE Cross(S, T)

\* an outcome without the callee's temporary, which was the last allocation
DropTemporary(o) == [o EXCEPT !.h = Front(o.h)]

\* return quaternion_make_from_axis_angle(axis, angle, out=out), the axis
\* being a float64 array local to the call
UnitVectorsInto(r, S, T, g) ==
    DropTemporary(
        quaternion_make_from_axis_angle(
            Append(r.h, [dtype |-> "f8", shape |-> <<3>>, data |-> UnitVectorsAxis(S, T, g)]),
            Len(r.h) + 1,
            Arctan2(Norm(Cross(S, T)), Dot(S, T)),
            r.ret, "none", g))

quaternion_make_from_unit_vectors(h, source, target, out, dtype, g) ==
    UnitVectorsInto(WithOut(h, out, Empty(<<4>>, dtype, g)),
                    h[source].data, h[target].data, g)

\* out[..., :3] *= -1
NegateVectorPart(h1, o) ==
    Outcome(Store(h1, o, [i \in 1..Len(h1[o].data) |->
                            IF (i - 1) % 4 < 3 THEN Mul(h1[o].data[i], MinusOne)
                            ELSE h1[o].data[i]]),
            o)

\* out[:] = quaternion
InverseInto(r, q) == NegateVectorPart(Store(r.h, r.ret, q.data), r.ret)

quaternion_inverse(h, quaternion, out, dtype, g) ==
    InverseInto(WithOut(h, out, EmptyLike(h[quaternion], h[quaternion].shape, dtype, g)),
                h[quaternion])

AxisIndex(letter) ==
    IF letter \in {"X", "x"} THEN 0 ELSE IF letter \in {"Y", "y"} THEN 1 ELSE 2

IsUpper(letter) == letter \in {"X", "Y", "Z"}

\* quaternions[idx] of the euler conversion (idx from 1)
ElementaryQuaternion(angles, order, idx) ==
    [i \in 1..4 |->
        IF i - 1 = AxisIndex(order[idx]) THEN Sin(Div(angles[idx], Two))
        ELSE IF i = 4 THEN Cos(Div(angles[idx], Two))
        ELSE Zero]

\* a variant with the two branches exchanged
EulerMultiplyExchanged(ht, extrinsic, out, g) ==
    IF extrinsic
    THEN quaternion_multiply(ht, Len(ht), out, out, "none", g)
    ELSE quaternion_multiply(ht, out, Len(ht), out, "none", g)

\* quaternion_multiply(out, quaternions[idx], out=out) or
\* quaternion_multiply(quaternions[idx], out, out=out), with quaternions[idx]
\* the last array of the heap ht
EulerMultiply(ht, extrinsic, out, g) ==
    IF extrinsic
    THEN quaternion_multiply(ht, out, Len(ht), out, "none", g)
    ELSE quaternion_multiply(ht, Len(ht), out, out, "none", g)

\* the loop body for idx (from 2), on the heap, accumulating into `out`
EulerStep(h, angles, order, idx, out, g) ==
    DropTemporary(
        EulerMultiply(Append(h, [dtype |-> "f8", shape |-> <<4>>,
                                 data |-> ElementaryQuaternion(angles, order, idx)]),
                      IsUpper(order[idx]), out, g)).h

RECURSIVE EulerLoop(_, _, _, _, _, _)
EulerLoop(h, angles, order, idx, out, g) ==
    IF idx > Len(order) THEN h
    ELSE EulerLoop(EulerStep(h, angles, order, idx, out, g), angles, order, idx + 1, out, g)

\* out[:] = quaternions[0], then the loop
EulerInto(r, angles, order, g) ==
    Outcome(EulerLoop(Store(r.h, r.ret, ElementaryQuaternion(angles, order, 1)),
                      angles, order, 2, r.ret, g),
            r.ret)

quaternion_make_from_euler_angles(h, angles, order, out, dtype, g) ==
    EulerInto(WithOut(h, out, Empty(<<4>>, dtype, g)), h[angles].data, order, g)

----------------------------------------------------------------------------
(* vector.py *)

\* multi-index (from 0) of the flat offset i (from 0) in an array of this shape
RECURSIVE Unravel(_, _)
Unravel(i, shape) ==
    IF shape = <<>> THEN <<>>
    ELSE Append(Unravel(i \div Last(shape), Front(shape)), i % Last(shape))

RECURSIVE Ravel(_, _)
Ravel(idx, shape) ==
    IF shape = <<>> THEN 0
    ELSE Ravel(Front(idx), Front(shape)) * Last(shape) + Last(idx)

\* NumPy broadcasting of two shapes of equal rank
Broadcastable(s1, s2) ==
    \A j \in 1..Len(s1) : s1[j] = s2[j] \/ s1[j] = 1 \/ s2[j] = 1

BroadcastShape(s1, s2) ==
    [j \in 1..Len(s1) |-> IF s1[j] = 1 THEN s2[j] ELSE s1[j]]

\* the index into an operand of shape s for the result index idx
BroadcastIndex(idx, s) == [j \in 1..Len(s) |-> IF s[j] = 1 THEN 0 ELSE idx[j]]

\* np.linalg.norm(vectors, axis=-1), flattened
Norms(V) ==
    [k \in 1..Prod(Front(V.shape)) |-> Norm(Row(V.data, k - 1, Last(V.shape)))]

\* the shape of norms[:, None]
ColumnShape(norm_shape) == <<norm_shape[1], 1>> \o Tail(norm_shape)

\* the offset into the norms for the index di into norms[:, None]
NormOffset(di, norm_shape) == Ravel(<<di[1]>> \o SubSeq(di, 3, Len(di)), norm_shape)

\* element idx of np.divide(vectors, norms[:, None])
Quotient(V, norms, idx) ==
    Div(V.data[Ravel(BroadcastIndex(idx, V.shape), V.shape) + 1],
        norms[NormOffset(BroadcastIndex(idx, ColumnShape(Front(V.shape))),
                         Front(V.shape)) + 1])

NormalizeInto(h, r, V, result_shape) ==
    IF Len(V.shape) = 1 THEN Raise(h, "IndexError")
    ELSE IF r.h[r.ret].dtype = "i8" THEN Raise(h, "TypeError")
    ELSE IF ~Broadcastable(V.shape, ColumnShape(Front(V.shape)))
            \/ result_shape # r.h[r.ret].shape
         THEN Raise(h, "ValueError")
    ELSE Outcome(Store(r.h, r.ret,
                       [i \in 1..Prod(result_shape) |->
                          Quotient(V, Norms(V), Unravel(i - 1, result_shape))]),
                 r.ret)

vector_normalize(h, vectors, out, dtype, g) ==
    NormalizeInto(h, WithOut(h, out, EmptyLike(h[vectors], h[vectors].shape, dtype, g)),
                  h[vectors],
                  IF Len(h[vectors].shape) = 1 THEN <<>>
                  ELSE BroadcastShape(h[vectors].shape,
                                      ColumnShape(Front(h[vectors].shape))))

\* out[..., :-1] = vectors, n the length of a vector
HomogeneousVectors(h1, o, V, n) ==
    Outcome(Store(h1, o, [i \in 1..Len(h1[o].data) |->
                            IF (i - 1) % (n + 1) = n THEN h1[o].data[i]
                            ELSE V.data[((i - 1) \div (n + 1)) * n + ((i - 1) % (n + 1)) + 1]]),
            o)

\* out[..., -1] = w
HomogeneousW(hr, o, w, n) ==
    Store(hr, o, [i \in 1..Len(hr[o].data) |->
                    IF (i - 1) % (n + 1) = n THEN w ELSE hr[o].data[i]])

HomogeneousInto(r, V, w) ==
    HomogeneousVectors(HomogeneousW(r.h, r.ret, w, Last(V.shape)), r.ret, V, Last(V.shape))

vector_make_homogeneous(h, vectors, w, out, dtype, g) ==
    HomogeneousInto(WithOut(h, out, EmptyLike(h[vectors],
                                              Front(h[vectors].shape)
                                                 \o <<Last(h[vectors].shape) + 1>>,
                                              dtype, g)),
                    h[vectors], w)

\* a variant without the transposition: transform[k, j] = matrix[k, j]
DotUntransposed(VH, M) ==
    [dtype |-> Promote(VH.dtype, M.dtype),
     shape |-> Front(VH.shape) \o <<3>>,
     data |-> [i \in 1..(Prod(Front(VH.shape)) * 3) |->
                 Dot(Row(VH.data, (i - 1) \div 3, 4),
                     [k \in 1..4 |-> M.data[4 * (k - 1) + ((i - 1) % 3) + 1]])]]

\* np.dot(vectors, transform) with transform = matrix[:-1, :].T, so that
\* transform[k, j] = matrix[j, k]
DotTransform(VH, M) ==
    [dtype |-> Promote(VH.dtype, M.dtype),
     shape |-> Front(VH.shape) \o <<3>>,
     data |-> [i \in 1..(Prod(Front(VH.shape)) * 3) |->
                 Dot(Row(VH.data, (i - 1) \div 3, 4), Row(M.data, (i - 1) % 3, 4))]]

ApplyMatrixReturn(h, computed, out, dtype) ==
    IF out # 0
    THEN \* np.dot(..., out=out), or on ValueError out[:] = np.dot(...)
         Outcome(Store(h, out, computed.data), out)
    ELSE IF dtype # "none"
         THEN Alloc(h, [computed EXCEPT !.dtype = dtype,
                                        !.data = CastAll(computed.data, dtype)])
         ELSE Alloc(h, computed)

\* hom is what vector_make_homogeneous(vectors, w=w) returned
ApplyMatrixTo(h, hom, M, out, dtype) ==
    ApplyMatrixReturn(h, DotTransform(hom.h[hom.ret], M), out, dtype)

vector_apply_matrix(h, vectors, matrix, w, out, dtype, g) ==
    ApplyMatrixTo(h, vector_make_homogeneous(h, vectors, w, 0, "none", g),
                  h[matrix], out, dtype)

\* out[..., c] = col, col holding one value per vector
SetColumn(hh, o, c, col) ==
    Store(hh, o, [i \in 1..Len(hh[o].data) |->
                    IF (i - 1) % 3 = c THEN col[((i - 1) \div 3) + 1] ELSE hh[o].data[i]])

\* x*x + z*z of one vector
LenXZ(v) == Add(Mul(v[1], v[1]), Mul(v[3], v[3]))

\* out[..., 0] = np.sqrt(np.sum(euclidean**2, axis=-1))
SphericalRadius(hh, o, eu) ==
    SetColumn(hh, o, 0, [k \in 1..(Len(eu) \div 3) |-> Norm(Row(eu, k - 1, 3))])

\* xz_nonzero = ~np.all(len_xz == 0, axis=-1): np.all reduces the last axis
\* of len_xz, which holds one entry per vector
XZNonzero(eu) == ~(\A k \in 1..(Len(eu) \div 3) : LenXZ(Row(eu, k - 1, 3)) = Zero)

\* out[..., 1] = np.divide(euclidean[..., 2], np.sqrt(len_xz), where=xz_nonzero)
SphericalPhiRatio(hh, o, eu, g) ==
    SetColumn(hh, o, 1,
              [k \in 1..(Len(eu) \div 3) |->
                 IF XZNonzero(eu)
                 THEN Div(Row(eu, k - 1, 3)[3], Sqrt(LenXZ(Row(eu, k - 1, 3))))
                 ELSE g])

\* out[..., 1] = np.sign(euclidean[..., 0]) * np.arccos(out[..., 1], where=xz_nonzero)
SphericalPhi(hh, o, eu, g) ==
    SetColumn(hh, o, 1,
              [k \in 1..(Len(eu) \div 3) |->
                 Mul(Sign(Row(eu, k - 1, 3)[1]),
                     IF XZNonzero(eu) THEN Arccos(Row(hh[o].data, k - 1, 3)[2]) ELSE g)])

\* r_zero = np.all(out[..., [0]] == 0, axis=-1), one entry per vector
RZero(hh, o, k) == Row(hh[o].data, k - 1, 3)[1] = Zero

\* out[..., 2] = np.divide(euclidean[..., 2], out[..., 0], where=~r_zero)
SphericalThetaRatio(hh, o, eu, g) ==
    SetColumn(hh, o, 2,
              [k \in 1..(Len(eu) \div 3) |->
                 IF ~RZero(hh, o, k)
                 THEN Div(Row(eu, k - 1, 3)[3], Row(hh[o].data, k - 1, 3)[1])
                 ELSE g])

\* a variant that leaves the ratio z / r in the third column
SphericalThetaAsRatio(hh, o, g) ==
    SetColumn(hh, o, 2,
              [k \in 1..(Len(hh[o].data) \div 3) |->
                 IF ~RZero(hh, o, k) THEN Row(hh[o].data, k - 1, 3)[3] ELSE g])

\* out[..., 2] = np.arccos(out[..., 2], where=~r_zero)
SphericalTheta(hh, o, g) ==
    SetColumn(hh, o, 2,
              [k \in 1..(Len(hh[o].data) \div 3) |->
                 IF ~RZero(hh, o, k) THEN Arccos(Row(hh[o].data, k - 1, 3)[3]) ELSE g])

\* the values `euclidean` holds while the heap is hh: those of `out` when
\* np.asarray(euclidean, dtype=float) is the very array passed as `out`
Euclidean(hh, o, E, aliased) == IF aliased THEN hh[o].data ELSE E.data

\* np.zeros_like(euclidean, dtype=dtype), or out[:] = 0
SphericalZeroed(h, E, out, dtype) ==
    IF out = 0
    THEN Alloc(h, [dtype |-> IF dtype = "none" THEN "f8" ELSE dtype,
                   shape |-> E.shape,
                   data |-> [i \in 1..Prod(E.shape) |-> Zero]])
    ELSE Outcome(Store(h, out, [i \in 1..Len(h[out].data) |-> Zero]), out)

\* each statement reads `euclidean` as the heap then holds it
SphericalStep1(hh, o, E, aliased) == SphericalRadius(hh, o, Euclidean(hh, o, E, aliased))

SphericalStep2(hh, o, E, aliased, g) ==
    SphericalPhiRatio(hh, o, Euclidean(hh, o, E, aliased), g)

SphericalStep3(hh, o, E, aliased, g) == SphericalPhi(hh, o, Euclidean(hh, o, E, aliased), g)

SphericalStep4(hh, o, E, aliased, g) ==
    SphericalThetaRatio(hh, o, Euclidean(hh, o, E, aliased), g)

SphericalFrom(h0, o, E, aliased, g) ==
    SphericalTheta(
        SphericalStep4(
            SphericalStep3(
                SphericalStep2(SphericalStep1(h0, o, E, aliased), o, E, aliased, g),
                o, E, aliased, g),
            o, E, aliased, g),
        o, g)

SphericalInto(r, E, aliased, g) == Outcome(SphericalFrom(r.h, r.ret, E, aliased, g), r.ret)

vector_euclidean_to_spherical(h, euclidean, out, dtype, g) ==
    SphericalInto(SphericalZeroed(h, h[euclidean], out, dtype), h[euclidean],
                  IsFloat64(h[euclidean]) /\ out = euclidean, g)

----------------------------------------------------------------------------
(* The caller: a heap of arrays and the calls made on it *)

VARIABLES heap, pre, log

vars == <<heap, pre, log>>

\* heap : the caller's arrays, by identity
\* pre  : the heap as it was when the latest call was made
\* log  : the calls made so far, each with what it returned or raised

FloatTypes == {"f8", "f4"}

\* the `dtype` keyword ("none" is None) and the `out` keyword (0 is None)
DTypeArgs == {"none", "f4", "f8"}

\* what uninitialised memory may hold
Garbage == {Zero, Int2Num(7), NaN}

WArgs == {Zero, One}

AngleArgs == {Zero, PiTimes(1, 2), PiTimes(1, 1)}

Letters == {"X", "Y", "Z", "x", "y", "z"}

Ids(h) == 1..Len(h)

CallRec(fn, a, b, out, dtype, g, w, angle, order) ==
    [fn |-> fn, a |-> a, b |-> b, out |-> out, dtype |-> dtype, g |-> g,
     w |-> w, angle |-> angle, order |-> order, ret |-> 0, err |-> "none",
     axis |-> <<>>]

\* the call c made on heap h
Run(h, c) ==
    CASE c.fn = "quaternion_to_matrix" ->
            quaternion_to_matrix(h, c.a, c.out, c.dtype, c.g)
      [] c.fn = "quaternion_multiply" ->
            quaternion_multiply(h, c.a, c.b, c.out, c.dtype, c.g)
      [] c.fn = "quaternion_make_from_unit_vectors" ->
            quaternion_make_from_unit_vectors(h, c.a, c.b, c.out, c.dtype, c.g)
      [] c.fn = "quaternion_inverse" ->
            quaternion_inverse(h, c.a, c.out, c.dtype, c.g)
      [] c.fn = "quaternion_make_from_axis_angle" ->
            quaternion_make_from_axis_angle(h, c.a, c.angle, c.out, c.dtype, c.g)
      [] c.fn = "quaternion_make_from_euler_angles" ->
            quaternion_make_from_euler_angles(h, c.a, c.order, c.out, c.dtype, c.g)
      [] c.fn = "vector_normalize" ->
            vector_normalize(h, c.a, c.out, c.dtype, c.g)
      [] c.fn = "vector_make_homogeneous" ->
            vector_make_homogeneous(h, c.a, c.w, c.out, c.dtype, c.g)
      [] c.fn = "vector_apply_matrix" ->
            vector_apply_matrix(h, c.a, c.b, c.w, c.out, c.dtype, c.g)
      [] c.fn = "vector_euclidean_to_spherical" ->
            vector_euclidean_to_spherical(h, c.a, c.out, c.dtype, c.g)

\* every element is a rational number
IsPlain(a) == \A i \in 1..Len(a.data) :
                 IsFinite(a.data[i]) /\ a.data[i][3] = 1 /\ a.data[i][4] = 0

HasShape(h, id, shape) == id \in Ids(h) /\ h[id].shape = shape

IsVectors(h, id) ==
    id \in Ids(h) /\ Len(h[id].shape) >= 1 /\ Last(h[id].shape) = 3 /\ IsPlain(h[id])

\* the finite non-zero elements share one radical and carry no pi
IsHomogeneous(a) ==
    \E r \in {1} \cup {a.data[i][3] : i \in 1..Len(a.data)} :
        \A i \in 1..Len(a.data) :
            \/ ~IsFinite(a.data[i])
            \/ a.data[i] = Zero
            \/ a.data[i][3] = r /\ a.data[i][4] = 0

IsQuaternions(h, id) ==
    /\ id \in Ids(h)
    /\ Len(h[id].shape) >= 1
    /\ Last(h[id].shape) = 4
    /\ IsHomogeneous(h[id])

\* `out` is None or a float array of the result's shape
OutFits(h, out, shape) ==
    out = 0 \/ (HasShape(h, out, shape) /\ h[out].dtype \in FloatTypes)

\* angles whose half has a sine and cosine in the tables
ExactHalfAngle(x) == IsEighthTurn(Div(x, Two))

\* source and target are parallel or orthogonal
ExactAngle(S, T) == Norm(Cross(S, T)) = Zero \/ Dot(S, T) = Zero

\* both arccos arguments of every vector are in the table
ExactSpherical(a) ==
    \A k \in 0..(Prod(Front(a.shape)) - 1) :
        LET v == Row(a.data, k, 3)
            len_xz == Add(Mul(v[1], v[1]), Mul(v[3], v[3]))
        IN /\ len_xz = Zero \/ Div(v[3], Sqrt(len_xz)) \in ArccosArgs
           /\ Norm(v) = Zero \/ Div(v[3], Norm(v)) \in ArccosArgs

\* the arguments are of the documented shapes and within the exact numbers
Valid(h, c) ==
    CASE c.fn = "quaternion_to_matrix" ->
            /\ IsQuaternions(h, c.a)
            /\ OutFits(h, c.out, Front(h[c.a].shape) \o <<4, 4>>)
      [] c.fn = "quaternion_multiply" ->
            /\ IsQuaternions(h, c.a) /\ HasShape(h, c.a, <<4>>)
            /\ IsQuaternions(h, c.b) /\ HasShape(h, c.b, <<4>>)
            /\ OutFits(h, c.out, <<4>>)
      [] c.fn = "quaternion_make_from_unit_vectors" ->
            /\ IsVectors(h, c.a) /\ HasShape(h, c.a, <<3>>)
            /\ IsVectors(h, c.b) /\ HasShape(h, c.b, <<3>>)
            /\ ExactAngle(h[c.a].data, h[c.b].data)
            /\ OutFits(h, c.out, <<4>>)
      [] c.fn = "quaternion_inverse" ->
            /\ IsQuaternions(h, c.a)
            /\ OutFits(h, c.out, h[c.a].shape)
      [] c.fn = "quaternion_make_from_axis_angle" ->
            /\ IsVectors(h, c.a) /\ HasShape(h, c.a, <<3>>)
            /\ ExactHalfAngle(c.angle)
            /\ OutFits(h, c.out, <<4>>)
      [] c.fn = "quaternion_make_from_euler_angles" ->
            /\ c.a \in Ids(h)
            /\ h[c.a].dtype \in FloatTypes
            /\ h[c.a].shape = (IF Len(c.order) > 1 THEN <<Len(c.order)>> ELSE <<>>)
            /\ \A i \in 1..Len(h[c.a].data) : ExactHalfAngle(h[c.a].data[i])
            /\ OutFits(h, c.out, <<4>>)
      [] c.fn = "vector_normalize" ->
            /\ IsVectors(h, c.a)
            /\ OutFits(h, c.out, h[c.a].shape)
      [] c.fn = "vector_make_homogeneous" ->
            /\ IsVectors(h, c.a)
            /\ OutFits(h, c.out, Front(h[c.a].shape) \o <<4>>)
      [] c.fn = "vector_apply_matrix" ->
            /\ IsVectors(h, c.a)
            /\ HasShape(h, c.b, <<4, 4>>) /\ IsPlain(h[c.b])
            /\ OutFits(h, c.out, h[c.a].shape)
      [] c.fn = "vector_euclidean_to_spherical" ->
            /\ IsVectors(h, c.a) /\ Len(h[c.a].shape) <= 2
            /\ ExactSpherical(h[c.a])
            /\ OutFits(h, c.out, h[c.a].shape)

\* the axis quaternion_make_from_unit_vectors passed on, for the log
AxisLocal(h, c) ==
    IF c.fn = "quaternion_make_from_unit_vectors"
    THEN UnitVectorsAxis(h[c.a].data, h[c.b].data, c.g)
    ELSE <<>>

\* the heap becomes what the call left, the log gains the call with what it
\* returned or raised
Record(c, o, axis) ==
    /\ heap' = o.h
    /\ pre' = heap
    /\ log' = Append(log, [c EXCEPT !.ret = o.ret, !.err = o.err, !.axis = axis])

\* one call
Call(c) ==
    /\ Valid(heap, c) = TRUE
    /\ Record(c, Run(heap, c), AxisLocal(heap, c))

Idle == log = <<>>

Called == log # <<>>

call == Last(log)

----------------------------------------------------------------------------
(* The caller's arrays *)

IntArray(dtype, shape, ints) ==
    [dtype |-> dtype, shape |-> shape,
     data |-> [i \in 1..Len(ints) |-> Int2Num(ints[i])]]

\* a buffer used before: it holds 9 everywhere
Stale(dtype, shape) ==
    [dtype |-> dtype, shape |-> shape, data |-> [i \in 1..Prod(shape) |-> Int2Num(9)]]

Identity4 == <<1, 0, 0, 0,  0, 1, 0, 0,  0, 0, 1, 0,  0, 0, 0, 1>>

Translation4(t) == <<1, 0, 0, t[1],  0, 1, 0, t[2],  0, 0, 1, t[3],  0, 0, 0, 1>>

GenVecs == {<<0, 0, 2>>, <<3, 4, 0>>, <<0, -1, 0>>}

GenQuats == {<<0, 0, 0, 1>>, <<1, 0, 0, 0>>, <<0, 1, 0, 0>>}

GenBatches == {<<3, 0, 4, 0, 5, 0>>, <<0, 1, 0, 1, 0, 0>>}

GenMatrices == {Identity4, Translation4(<<1, 2, 3>>)}

GenAngles == {<<Zero, PiTimes(1, 1), PiTimes(1, 2)>>, <<PiTimes(1, 2), PiTimes(1, 2), PiTimes(-1, 2)>>}

\* two vectors, and buffers to receive a vector or a quaternion
HeapsV ==
    { << IntArray(d, <<3>>, v), IntArray("f8", <<3>>, t), Stale(od, <<3>>), Stale(od, <<4>>) >> :
        d \in DTypes, v \in GenVecs, t \in GenVecs, od \in FloatTypes }

\* two quaternions, and buffers to receive a quaternion or a matrix
HeapsQ ==
    { << IntArray(d, <<4>>, q), IntArray("f8", <<4>>, p), Stale(od, <<4>>), Stale(od, <<4, 4>>) >> :
        d \in DTypes, q \in GenQuats, p \in GenQuats, od \in FloatTypes }

\* a batch of vectors, a matrix, and buffers to receive either batch
HeapsB ==
    { << IntArray(d, <<2, 3>>, b), IntArray("f8", <<4, 4>>, m),
         Stale(od, <<2, 3>>), Stale(od, <<2, 4>>) >> :
        d \in DTypes, b \in GenBatches, m \in GenMatrices, od \in FloatTypes }

\* euler angles and a buffer to receive a quaternion
HeapsE ==
    { << [dtype |-> d, shape |-> <<3>>, data |-> a], Stale(od, <<4>>) >> :
        d \in FloatTypes, a \in GenAngles, od \in FloatTypes }

Init ==
    /\ heap \in HeapsV \cup HeapsQ \cup HeapsB \cup HeapsE
    /\ pre = heap
    /\ log = <<>>

----------------------------------------------------------------------------
(* One call of any implemented function, with any arguments the heap offers *)

Outs == 0..4

EulerOrders == {<<"X", "Y", "Z">>, <<"x", "y", "z">>, <<"Z", "y", "X">>}

QuaternionToMatrix ==
    /\ Idle
    /\ \E a \in Ids(heap), out \in Outs, dtype \in DTypeArgs, g \in Garbage :
          Call(CallRec("quaternion_to_matrix", a, 0, out, dtype, g, Zero, Zero, <<>>))

QuaternionMultiply ==
    /\ Idle
    /\ \E a \in Ids(heap), b \in Ids(heap), out \in Outs, dtype \in DTypeArgs, g \in Garbage :
          Call(CallRec("quaternion_multiply", a, b, out, dtype, g, Zero, Zero, <<>>))

QuaternionMakeFromUnitVectors ==
    /\ Idle
    /\ \E a \in Ids(heap), b \in Ids(heap), out \in Outs, dtype \in DTypeArgs, g \in Garbage :
          Call(CallRec("quaternion_make_from_unit_vectors", a, b, out, dtype, g, Zero, Zero, <<>>))

QuaternionInverse ==
    /\ Idle
    /\ \E a \in Ids(heap), out \in Outs, dtype \in DTypeArgs, g \in Garbage :
          Call(CallRec("quaternion_inverse", a, 0, out, dtype, g, Zero, Zero, <<>>))

QuaternionMakeFromAxisAngle ==
    /\ Idle
    /\ \E a \in Ids(heap), angle \in AngleArgs, out \in Outs, dtype \in DTypeArgs, g \in Garbage :
          Call(CallRec("quaternion_make_from_axis_angle", a, 0, out, dtype, g, Zero, angle, <<>>))

QuaternionMakeFromEulerAngles ==
    /\ Idle
    /\ \E a \in Ids(heap), order \in EulerOrders, out \in Outs, dtype \in DTypeArgs, g \in Garbage :
          Call(CallRec("quaternion_make_from_euler_angles", a, 0, out, dtype, g, Zero, Zero, order))

VectorNormalize ==
    /\ Idle
    /\ \E a \in Ids(heap), out \in Outs, dtype \in DTypeArgs, g \in Garbage :
          Call(CallRec("vector_normalize", a, 0, out, dtype, g, Zero, Zero, <<>>))

VectorMakeHomogeneous ==
    /\ Idle
    /\ \E a \in Ids(heap), w \in WArgs, out \in Outs, dtype \in DTypeArgs, g \in Garbage :
          Call(CallRec("vector_make_homogeneous", a, 0, out, dtype, g, w, Zero, <<>>))

VectorApplyMatrix ==
    /\ Idle
    /\ \E a \in Ids(heap), b \in Ids(heap), w \in WArgs, out \in Outs, dtype \in DTypeArgs, g \in Garbage :
          Call(CallRec("vector_apply_matrix", a, b, out, dtype, g, w, Zero, <<>>))

VectorEuclideanToSpherical ==
    /\ Idle
    /\ \E a \in Ids(heap), out \in Outs, dtype \in DTypeArgs, g \in Garbage :
          Call(CallRec("vector_euclidean_to_spherical", a, 0, out, dtype, g, Zero, Zero, <<>>))

Next ==
    \/ QuaternionToMatrix
    \/ QuaternionMultiply
    \/ QuaternionMakeFromUnitVectors
    \/ QuaternionInverse
    \/ QuaternionMakeFromAxisAngle
    \/ QuaternionMakeFromEulerAngles
    \/ VectorNormalize
    \/ VectorMakeHomogeneous
    \/ VectorApplyMatrix
    \/ VectorEuclideanToSpherical

Spec == Init /\ [][Next]_vars

----------------------------------------------------------------------------
(* Claims about every implemented function, under Spec *)

\* the caller-supplied array arguments of a call
ArrayArgs(c) == {c.a, c.b} \ {0}

\* C2 (as claimed): after any call, every caller-supplied argument other than
\* `out` holds the values it held before the call.
C2_InputsUnchanged ==
    Called => \A id \in ArrayArgs(call) : id # call.out => heap[id] = pre[id]

\* the call passes an `out` buffer and a `dtype` that differs from the buffer's
Conflict(c, h) == c.out # 0 /\ c.dtype # "none" /\ c.dtype # h[c.out].dtype

\* C3 (as claimed): a call with both `out` and a differing `dtype` fails with
\* an error and does not write to `out`.
C3_ConflictFails ==
    Called /\ Conflict(call, pre) =>
        call.err # "none" /\ heap[call.out] = pre[call.out]

\* the latest call left the heap, returned and raised as the outcome o
Agrees(o) == heap = o.h /\ call.ret = o.ret /\ call.err = o.err

\* C3 (amended): a call with both `out` and a differing `dtype` ignores the
\* override: it leaves the heap, returns and raises exactly as the same call
\* without `dtype`; `out` keeps its element type and is what a call that
\* does not raise returns.
C3_DtypeIgnoredWithOut ==
    Called /\ Conflict(call, pre) =>
        /\ Agrees(Run(pre, [call EXCEPT !.dtype = "none"]))
        /\ heap[call.out].dtype = pre[call.out].dtype
        /\ call.err = "none" => call.ret = call.out

\* a conflicting call completed and wrote its result into `out`
C3_Witness ==
    /\ Called
    /\ Conflict(call, pre)
    /\ call.err = "none"
    /\ call.ret = call.out
    /\ heap[call.out].data # pre[call.out].data

\* what the call returns when it has to allocate an array of out's type
Returned(o) == o.h[o.ret]

FreshResult(h, c) == Returned(Run(h, [c EXCEPT !.out = 0, !.dtype = h[c.out].dtype]))

\* C4 (as claimed): when `out` is supplied the call returns that buffer and it
\* holds the result; when not, it returns a new buffer that is none of the
\* caller's arrays.
C4_OutConvention ==
    Called /\ call.err = "none" =>
        IF call.out # 0
        THEN /\ call.ret = call.out
             /\ heap[call.out].data = FreshResult(pre, call).data
        ELSE /\ call.ret \notin Ids(pre)
             /\ call.ret \in Ids(heap)

\* C4 away from the one call that breaks it: converting a float64 array in place
C4_ExceptSphericalInPlace ==
    Called /\ call.err = "none"
           /\ ~(call.fn = "vector_euclidean_to_spherical" /\ call.out = call.a
                /\ IsFloat64(pre[call.a])) =>
        IF call.out # 0
        THEN /\ call.ret = call.out
             /\ heap[call.out].data = FreshResult(pre, call).data
        ELSE /\ call.ret \notin Ids(pre)
             /\ call.ret \in Ids(heap)

\* C2 away from the one function that breaks it
C2_ExceptAxisAngle ==
    Called /\ call.fn # "quaternion_make_from_axis_angle" =>
        \A id \in ArrayArgs(call) : id # call.out => heap[id] = pre[id]

----------------------------------------------------------------------------
(* A rotation made from two vectors, turned into a matrix and applied to the
   source: SpecUV *)

MaxCoordUV == 2

CoordsUV == (0 - MaxCoordUV)..MaxCoordUV

AxesUV == {<<1, 0, 0>>, <<0, 1, 0>>, <<0, 0, 1>>}

IntDot(u, v) == u[1] * v[1] + u[2] * v[2] + u[3] * v[3]

\* the targets tried for a source: itself, its opposite, and the coordinate
\* axes at a right angle to it
TargetsUV(u) ==
    {u, <<0 - u[1], 0 - u[2], 0 - u[3]>>}
        \cup {e \in AxesUV : u # <<0, 0, 0>> /\ IntDot(u, e) = 0}

\* source, target and a buffer to receive the quaternion
HeapsFromUV(u) ==
    { << IntArray("f8", <<3>>, u), IntArray("f8", <<3>>, t), Stale("f8", <<4>>) >> :
        t \in TargetsUV(u) }

HeapsUV == UNION {HeapsFromUV(u) : u \in CoordsUV \X CoordsUV \X CoordsUV}

InitUV ==
    /\ heap \in HeapsUV
    /\ pre = heap
    /\ log = <<>>

\* q = quaternion_make_from_unit_vectors(source, target, out=..., dtype=...)
MakeRotationUV ==
    /\ log = <<>>
    /\ \E out \in {0, 3}, dtype \in DTypeArgs, g \in Garbage :
          Record(CallRec("quaternion_make_from_unit_vectors", 1, 2, out, dtype, g,
                         Zero, Zero, <<>>),
                 quaternion_make_from_unit_vectors(heap, 1, 2, out, dtype, g),
                 UnitVectorsAxis(heap[1].data, heap[2].data, g))

\* m = quaternion_to_matrix(q)
ToMatrixUV ==
    /\ Len(log) = 1
    /\ IsQuaternions(heap, log[1].ret) = TRUE
    /\ \E g \in Garbage :
          Record(CallRec("quaternion_to_matrix", log[1].ret, 0, 0, "none", g,
                         Zero, Zero, <<>>),
                 quaternion_to_matrix(heap, log[1].ret, 0, "none", g),
                 <<>>)

\* vector_apply_matrix(source, m, w=w)
ApplyMatrixUV ==
    /\ Len(log) = 2
    /\ \E w \in WArgs, g \in Garbage :
          Record(CallRec("vector_apply_matrix", 1, log[2].ret, 0, "none", g,
                         w, Zero, <<>>),
                 vector_apply_matrix(heap, 1, log[2].ret, w, 0, "none", g),
                 <<>>)

NextUV == MakeRotationUV \/ ToMatrixUV \/ ApplyMatrixUV

SpecUV == InitUV /\ [][NextUV]_vars

source == heap[1].data

target == heap[2].data

\* the rotation has been made
Made == Len(log) >= 1

\* the quaternion the first call returned
rotation == heap[log[1].ret].data

\* the first call met cross(source, target) of norm 0
Degenerate == Norm(Cross(source, target)) = Zero

\* C1 (as claimed): when cross(source, target) has norm 0 the replacement
\* axis is (0,1,0) if source.y == 0, also when source.z == 0; else (0,0,1) if
\* source.z == 0; else (0, -source.z, source.y).
C1_YBeforeZ ==
    Made /\ Degenerate =>
        log[1].axis = IF source[2] = Zero THEN <<Zero, One, Zero>>
                      ELSE IF source[3] = Zero THEN <<Zero, Zero, One>>
                      ELSE <<Zero, Neg(source[3]), source[2]>>

\* C1 (amended): when cross(source, target) has norm 0 the replacement axis
\* is (0,0,1) if source.z == 0, also when source.y == 0; else (0,1,0) if
\* source.y == 0; else (0, -source.z, source.y). It is the axis of the
\* returned half turn when the target points away from the source.
C1_ZBeforeY ==
    Made /\ Degenerate =>
        /\ log[1].axis = IF source[3] = Zero THEN <<Zero, Zero, One>>
                         ELSE IF source[2] = Zero THEN <<Zero, One, Zero>>
                         ELSE <<Zero, Neg(source[3]), source[2]>>
        /\ Dot(source, target)[1] < 0 =>
              \A i \in 1..3 : Mul(rotation[i], Norm(log[1].axis)) = log[1].axis[i]

\* a source along x, where both rules apply, turned to its opposite
C1_Witness ==
    /\ Made
    /\ Degenerate
    /\ source[2] = Zero /\ source[3] = Zero /\ source[1] # Zero
    /\ Dot(source, target)[1] < 0
    /\ log[1].axis = <<Zero, Zero, One>>
    /\ rotation = <<Zero, Zero, One, Zero>>

\* the product of the three calls
moved == heap[log[3].ret].data

\* C8: for every non-zero v, the rotation made from (v, v) is the identity
\* quaternion (0,0,0,1); the rotation made from (v, -v) is a half turn (its
\* scalar part is 0) about a non-zero axis orthogonal to v, and its matrix
\* applied to v gives -v.
C8_SameAndOpposite ==
    /\ Made /\ source # <<Zero, Zero, Zero>> /\ target = source =>
          rotation = <<Zero, Zero, Zero, One>>
    /\ Made /\ source # <<Zero, Zero, Zero>> /\ target = [i \in 1..3 |-> Neg(source[i])] =>
          /\ rotation[4] = Zero
          /\ SubSeq(rotation, 1, 3) # <<Zero, Zero, Zero>>
          /\ Dot(SubSeq(rotation, 1, 3), source) = Zero
          /\ Len(log) = 3 => log[3].err = "none" /\ moved = target

\* a vector with no zero component was turned onto its opposite
C8_Witness ==
    /\ Len(log) = 3
    /\ \A i \in 1..3 : source[i] # Zero
    /\ target = [i \in 1..3 |-> Neg(source[i])]
    /\ rotation[4] = Zero
    /\ moved = target

----------------------------------------------------------------------------
(* One conversion to spherical coordinates: SpecSph *)

MaxCoordSph == 1

CoordsSph == (0 - MaxCoordSph)..MaxCoordSph

\* the second vector of a batch: the origin, one off the y axis, one along it
SecondRowsSph == {<<0, 0, 0>>, <<1, 0, 0>>, <<0, 2, 0>>}

\* a vector or a batch of two, and a buffer to receive the result
HeapsSph ==
    { << IntArray("f8", <<3>>, u), Stale("f8", <<3>>) >> :
        u \in CoordsSph \X CoordsSph \X CoordsSph }
    \cup
    { << IntArray("f8", <<2, 3>>, u \o v), Stale("f8", <<2, 3>>) >> :
        u \in CoordsSph \X CoordsSph \X CoordsSph, v \in SecondRowsSph }

InitSph ==
    /\ heap \in {h \in HeapsSph : ExactSpherical(h[1])}
    /\ pre = heap
    /\ log = <<>>

\* vector_euclidean_to_spherical(e), also with out=e or out=another buffer
ToSpherical ==
    /\ Idle
    /\ \E out \in 0..2, dtype \in DTypeArgs, g \in Garbage :
          Record(CallRec("vector_euclidean_to_spherical", 1, 0, out, dtype, g,
                         Zero, Zero, <<>>),
                 vector_euclidean_to_spherical(heap, 1, out, dtype, g),
                 <<>>)

NextSph == ToSpherical

SpecSph == InitSph /\ [][NextSph]_vars

\* vector k (from 0) the call was given, and the one it returned
given(k) == Row(pre[call.a].data, k, 3)

returned(k) == Row(heap[call.ret].data, k, 3)

\* C5: for every input with x = z = 0 the returned phi is exactly 0, and for
\* the origin the returned theta is exactly 0, with or without `out`.
C5_ZeroDefaults ==
    Called /\ call.err = "none" =>
        \A k \in 0..(Prod(Front(pre[call.a].shape)) - 1) :
            /\ given(k)[1] = Zero /\ given(k)[3] = Zero => returned(k)[2] = Zero
            /\ given(k) = <<Zero, Zero, Zero>> => returned(k)[3] = Zero

\* the call converted the single vector (0, 1, 0)
AlongY == Called /\ pre[1] = IntArray("f8", <<3>>, <<0, 1, 0>>)

----------------------------------------------------------------------------
(* One normalisation of an array of any rank: SpecNorm *)

MaxRankN == 3

DimsN == {1, 2, 3}

RowPoolN == << <<3, 0, 4>>, <<0, 5, 0>>, <<1, 2, 2>> >>

\* the shapes (..., 3) of rank up to MaxRankN
ShapesN == {bs \o <<3>> : bs \in UNION {[1..k -> DimsN] : k \in 0..(MaxRankN - 1)}}

\* the rows of the pool in turn, from row s of it
CycleN(shape, s) ==
    [i \in 1..Prod(shape) |-> RowPoolN[((((i - 1) \div 3) + s) % 3) + 1][((i - 1) % 3) + 1]]

\* the vectors and a buffer to receive the result
HeapsN ==
    { << IntArray(d, shape, CycleN(shape, s)), Stale("f8", shape) >> :
        d \in {"f8", "i8"}, shape \in ShapesN, s \in 0..2 }

InitN ==
    /\ heap \in HeapsN
    /\ pre = heap
    /\ log = <<>>

\* vector_normalize(v), also with out=v or out=another buffer
Normalize ==
    /\ Idle
    /\ \E out \in 0..2, dtype \in DTypeArgs, g \in Garbage :
          /\ OutFits(heap, out, heap[1].shape) = TRUE
          /\ Record(CallRec("vector_normalize", 1, 0, out, dtype, g, Zero, Zero, <<>>),
                    vector_normalize(heap, 1, out, dtype, g),
                    <<>>)

NextN == Normalize

SpecN == InitN /\ [][NextN]_vars

\* the array returned holds every vector given, divided by its own norm
EachByItsNorm ==
    /\ call.err = "none"
    /\ heap[call.ret].shape = pre[call.a].shape
    /\ \A k \in 0..(Prod(Front(pre[call.a].shape)) - 1) :
          Row(heap[call.ret].data, k, 3)
              = [i \in 1..3 |-> Div(Row(pre[call.a].data, k, 3)[i],
                                    Norm(Row(pre[call.a].data, k, 3)))]

\* C7: for an input of shape (..., 3) with any number of leading dimensions,
\* none included, the call returns an array of the same shape in which each
\* vector is divided by its own norm.
C7_AnyBatchShape == Called => EachByItsNorm

\* C7 for what the code does handle: one leading dimension and a result of a
\* float type
C7_OneBatchDimension ==
    Called /\ Len(pre[call.a].shape) = 2
           /\ (call.out # 0 \/ call.dtype # "none" \/ pre[call.a].dtype # "i8") =>
        EachByItsNorm

----------------------------------------------------------------------------
(* One conversion of euler angles, for any order of letters: SpecE *)

MaxOrderLen == 3

AnglesE == {PiTimes(1, 2), PiTimes(1, 1)}

OrdersE(n) == [1..n -> Letters]

\* the angles (a scalar for one letter) and a buffer to receive the quaternion
HeapsOfE(n) ==
    { << [dtype |-> "f8", shape |-> IF n > 1 THEN <<n>> ELSE <<>>, data |-> a],
         Stale("f8", <<4>>) >> : a \in [1..n -> AnglesE] }

InitE ==
    /\ heap \in UNION {HeapsOfE(n) : n \in 1..MaxOrderLen}
    /\ pre = heap
    /\ log = <<>>

\* quaternion_make_from_euler_angles(angles, order=order), also with out=
MakeFromEulerAngles ==
    /\ Idle
    /\ \E order \in OrdersE(Len(heap[1].data)), out \in {0, 2}, g \in Garbage :
          Record(CallRec("quaternion_make_from_euler_angles", 1, 0, out, "none", g,
                         Zero, Zero, order),
                 quaternion_make_from_euler_angles(heap, 1, order, out, "none", g),
                 <<>>)

NextE == MakeFromEulerAngles

SpecE == InitE /\ [][NextE]_vars

\* the Hamilton product a * b of quaternions (x, y, z, w)
Hamilton(a, b) ==
    << Add(Add(Mul(a[4], b[1]), Mul(b[4], a[1])), Sub(Mul(a[2], b[3]), Mul(a[3], b[2]))),
       Add(Add(Mul(a[4], b[2]), Mul(b[4], a[2])), Sub(Mul(a[3], b[1]), Mul(a[1], b[3]))),
       Add(Add(Mul(a[4], b[3]), Mul(b[4], a[3])), Sub(Mul(a[1], b[2]), Mul(a[2], b[1]))),
       Sub(Mul(a[4], b[4]), Add(Add(Mul(a[1], b[1]), Mul(a[2], b[2])), Mul(a[3], b[3]))) >>

\* the rotation by `angle` about the axis the letter names
About(letter, angle) ==
    CASE letter \in {"X", "x"} -> <<Sin(Div(angle, Two)), Zero, Zero, Cos(Div(angle, Two))>>
      [] letter \in {"Y", "y"} -> <<Zero, Sin(Div(angle, Two)), Zero, Cos(Div(angle, Two))>>
      [] letter \in {"Z", "z"} -> <<Zero, Zero, Sin(Div(angle, Two)), Cos(Div(angle, Two))>>

\* the accumulator after the first n letters
RECURSIVE Folded(_, _, _)
Folded(angles, order, n) ==
    IF n = 1 THEN About(order[1], angles[1])
    ELSE IF order[n] \in {"X", "Y", "Z"}
         THEN Hamilton(Folded(angles, order, n - 1), About(order[n], angles[n]))
         ELSE Hamilton(About(order[n], angles[n]), Folded(angles, order, n - 1))

\* C9: the result is the fold, left to right over the letters of `order`, of
\* the elementary quaternions: the accumulator starts as the first one and at
\* each later letter becomes accumulator * q_i if the letter is uppercase and
\* q_i * accumulator if it is lowercase.
C9_FoldsLeftToRight ==
    Called =>
        /\ call.err = "none"
        /\ heap[call.ret].data = Folded(pre[1].data, call.order, Len(call.order))

\* three letters, the second intrinsic and the third extrinsic, where the
\* side of the second multiplication shows in the result
C9_Witness ==
    /\ Called
    /\ Len(call.order) = 3
    /\ call.order[2] \in {"x", "y", "z"}
    /\ call.order[3] \in {"X", "Y", "Z"}
    /\ heap[call.ret].data =
          Hamilton(Hamilton(About(call.order[2], pre[1].data[2]),
                            About(call.order[1], pre[1].data[1])),
                   About(call.order[3], pre[1].data[3]))
    /\ heap[call.ret].data #
          Hamilton(Hamilton(About(call.order[1], pre[1].data[1]),
                            About(call.order[2], pre[1].data[2])),
                   About(call.order[3], pre[1].data[3]))

----------------------------------------------------------------------------
(* Products of three quaternions a, b, c: SpecM *)

MaxQ == 1

CoordsM == (0 - MaxQ)..MaxQ

GenQuatsM == {<<1, 0, 0, 0>>, <<0, 1, 0, 1>>, <<1, 2, 3, 4>>}

HeapsM ==
    { << IntArray("f8", <<4>>, a), IntArray("f8", <<4>>, b), IntArray("f8", <<4>>, c) >> :
        a \in CoordsM \X CoordsM \X CoordsM \X CoordsM, b \in GenQuatsM, c \in GenQuatsM }

InitM ==
    /\ heap \in HeapsM
    /\ pre = heap
    /\ log = <<>>

\* quaternion_multiply(x, y) into a new array
MultiplyM(x, y, g) ==
    Record(CallRec("quaternion_multiply", x, y, 0, "none", g, Zero, Zero, <<>>),
           quaternion_multiply(heap, x, y, 0, "none", g),
           <<>>)

\* ab = a * b
MultiplyAB == log = <<>> /\ \E g \in Garbage : MultiplyM(1, 2, g)

\* (a * b) * c
MultiplyABthenC == Len(log) = 1 /\ MultiplyM(log[1].ret, 3, log[1].g)

\* bc = b * c
MultiplyBC == Len(log) = 2 /\ MultiplyM(2, 3, log[1].g)

\* a * (b * c)
MultiplyAthenBC == Len(log) = 3 /\ MultiplyM(1, log[3].ret, log[1].g)

\* b * a
MultiplyBA == Len(log) = 4 /\ MultiplyM(2, 1, log[1].g)

NextM == MultiplyAB \/ MultiplyABthenC \/ MultiplyBC \/ MultiplyAthenBC \/ MultiplyBA

SpecM == InitM /\ [][NextM]_vars

\* C10: every product is the Hamilton product of its operands (vector part
\* a.w*b.xyz + b.w*a.xyz + cross(a.xyz, b.xyz), scalar part a.w*b.w -
\* dot(a.xyz, b.xyz)), and (a * b) * c = a * (b * c).
C10_HamiltonAssociative ==
    /\ \A i \in 1..Len(log) :
          /\ log[i].err = "none"
          /\ heap[log[i].ret].data = Hamilton(heap[log[i].a].data, heap[log[i].b].data)
    /\ Len(log) >= 4 => heap[log[2].ret].data = heap[log[4].ret].data

\* a and b with a * b different from b * a, all five products made
C10_Witness ==
    /\ Len(log) = 5
    /\ heap[log[1].ret].data # heap[log[5].ret].data
    /\ heap[log[2].ret].data = heap[log[4].ret].data

----------------------------------------------------------------------------
(* One conversion of a quaternion, or a batch of them, to matrices: SpecQM *)

MaxCoordQM == 1

MaxBatchQM == 2

CoordsQM == (0 - MaxCoordQM)..MaxCoordQM

\* the quaternions that follow the first one of a batch, in turn
RowPoolQM == << <<1, 2, 3, 4>>, <<0, 0, 1, 1>>, <<-1, 0, 2, 0>> >>

ShapesQM == {<<4>>} \cup {<<n, 4>> : n \in 1..MaxBatchQM}

\* the quaternion u, followed by those of the pool
BatchQM(shape, u) ==
    [i \in 1..Prod(shape) |->
        IF i <= 4 THEN u[i] ELSE RowPoolQM[((((i - 1) \div 4) - 1) % 3) + 1][((i - 1) % 4) + 1]]

\* the quaternions and a used buffer to receive the matrices
HeapsQM ==
    { << IntArray("f8", shape, BatchQM(shape, u)), Stale(od, Front(shape) \o <<4, 4>>) >> :
        shape \in ShapesQM, u \in CoordsQM \X CoordsQM \X CoordsQM \X CoordsQM,
        od \in FloatTypes }

InitQM ==
    /\ heap \in HeapsQM
    /\ pre = heap
    /\ log = <<>>

\* quaternion_to_matrix(q), also with out= the used buffer
ToMatrixQM ==
    /\ Idle
    /\ \E out \in {0, 2}, dtype \in DTypeArgs, g \in Garbage :
          Record(CallRec("quaternion_to_matrix", 1, 0, out, dtype, g, Zero, Zero, <<>>),
                 quaternion_to_matrix(heap, 1, out, dtype, g),
                 <<>>)

NextQM == ToMatrixQM

SpecQM == InitQM /\ [][NextQM]_vars

Twice(a) == Mul(Two, a)

\* the matrix of the quaternion (x, y, z, w), row by row
MatrixOf(x, y, z, w) ==
    << Sub(One, Twice(Add(Mul(y, y), Mul(z, z)))), Twice(Sub(Mul(x, y), Mul(w, z))),
       Twice(Add(Mul(x, z), Mul(w, y))), Zero,
       Twice(Add(Mul(x, y), Mul(w, z))), Sub(One, Twice(Add(Mul(x, x), Mul(z, z)))),
       Twice(Sub(Mul(y, z), Mul(w, x))), Zero,
       Twice(Sub(Mul(x, z), Mul(w, y))), Twice(Add(Mul(y, z), Mul(w, x))),
       Sub(One, Twice(Add(Mul(x, x), Mul(y, y)))), Zero,
       Zero, Zero, Zero, One >>

\* quaternion m (from 0) of the call's argument
quaternionAt(m) == Row(pre[call.a].data, m, 4)

\* C11: for every quaternion and every number of batch instances the call
\* returns one 4x4 matrix per instance, with the rotation block
\* [[1-2(yy+zz), 2(xy-wz), 2(xz+wy)], [2(xy+wz), 1-2(xx+zz), 2(yz-wx)],
\* [2(xz-wy), 2(yz+wx), 1-2(xx+yy)]] and last row and column [0,0,0,1], also
\* into a used `out` buffer.
C11_MatrixPerInstance ==
    Called =>
        /\ call.err = "none"
        /\ call.out # 0 => call.ret = call.out
        /\ heap[call.ret].shape = Front(pre[call.a].shape) \o <<4, 4>>
        /\ \A m \in 0..(Prod(Front(pre[call.a].shape)) - 1) :
              Row(heap[call.ret].data, m, 16)
                  = MatrixOf(quaternionAt(m)[1], quaternionAt(m)[2],
                             quaternionAt(m)[3], quaternionAt(m)[4])

\* a batch of two quaternions was converted into the used buffer, the second
\* matrix being that of (1, 2, 3, 4)
C11_Witness ==
    /\ Called
    /\ call.out = 2
    /\ pre[1].shape = <<2, 4>>
    /\ pre[2].data = [i \in 1..32 |-> Int2Num(9)]
    /\ Row(heap[2].data, 1, 16) =
          [i \in 1..16 |->
              Int2Num(<< -25, -20, 22, 0,  28, -19, 4, 0,  -10, 20, -9, 0,  0, 0, 0, 1 >>[i])]

----------------------------------------------------------------------------
(* One application of a translation matrix (the identity when the translation
   is zero) to a vector or a batch of two: SpecAM *)

MaxCoordAM == 1

CoordsAM == (0 - MaxCoordAM)..MaxCoordAM

VectorPoolAM == {<<3, 4, 0>>, <<0, -1, 2>>, <<0, 0, 0>>}

\* the homogeneous coordinates tried: 0, 1, 2 and 1/2
WArgsAM == {Zero, One, Two, Rat(1, 2)}

\* the vectors, the matrix and a used buffer to receive the result
HeapsAM ==
    { << IntArray(d, <<3>>, u), IntArray("f8", <<4, 4>>, Translation4(t)),
         Stale("f8", <<3>>) >> :
        d \in {"f8", "i8"}, u \in VectorPoolAM, t \in CoordsAM \X CoordsAM \X CoordsAM }
    \cup
    { << IntArray(d, <<2, 3>>, u \o <<1, 2, 3>>), IntArray("f8", <<4, 4>>, Translation4(t)),
         Stale("f8", <<2, 3>>) >> :
        d \in {"f8", "i8"}, u \in VectorPoolAM, t \in CoordsAM \X CoordsAM \X CoordsAM }

InitAM ==
    /\ heap \in HeapsAM
    /\ pre = heap
    /\ log = <<>>

\* vector_apply_matrix(v, m, w=w), also with out= the used buffer
ApplyMatrixAM ==
    /\ Idle
    /\ \E w \in WArgsAM, out \in {0, 3}, dtype \in DTypeArgs, g \in Garbage :
          Record(CallRec("vector_apply_matrix", 1, 2, out, dtype, g, w, Zero, <<>>),
                 vector_apply_matrix(heap, 1, 2, w, out, dtype, g),
                 <<>>)

NextAM == ApplyMatrixAM

SpecAM == InitAM /\ [][NextAM]_vars

\* the translation of the matrix given: the first three entries of its last column
translation == << pre[2].data[4], pre[2].data[8], pre[2].data[12] >>

\* vector k (from 0) given, and vector k of the result
vectorGiven(k) == Row(pre[1].data, k, 3)

vectorMoved(k) == Row(heap[call.ret].data, k, 3)

\* C12: with the identity matrix the vectors are returned unchanged for any
\* w; with a pure translation by t they are returned unchanged when w = 0 and
\* moved by t when w = 1.
C12_IdentityAndTranslation ==
    Called =>
        /\ call.err = "none"
        /\ heap[call.ret].shape = pre[1].shape
        /\ \A k \in 0..(Prod(Front(pre[1].shape)) - 1) :
              /\ translation = <<Zero, Zero, Zero>> => vectorMoved(k) = vectorGiven(k)
              /\ call.w = Zero => vectorMoved(k) = vectorGiven(k)
              /\ call.w = One =>
                    vectorMoved(k) = [i \in 1..3 |-> Add(vectorGiven(k)[i], translation[i])]

\* a batch was moved by a translation with no zero component, w being 1
C12_Witness ==
    /\ Called
    /\ pre[1].shape = <<2, 3>>
    /\ \A i \in 1..3 : translation[i] # Zero
    /\ call.w = One
    /\ vectorMoved(1) = [i \in 1..3 |-> Add(Int2Num(i), translation[i])]
    /\ vectorMoved(1) # vectorGiven(1)

----------------------------------------------------------------------------
(* A product into a separate buffer, then the same product into one of its
   operands: SpecMA *)

MaxCoordMA == 1

CoordsMA == (0 - MaxCoordMA)..MaxCoordMA

\* two quaternions and a used buffer
HeapsMA ==
    { << IntArray(d, <<4>>, a), IntArray("f8", <<4>>, b), Stale("f8", <<4>>) >> :
        d \in {"f8", "i8"}, a \in CoordsMA \X CoordsMA \X CoordsMA \X CoordsMA,
        b \in GenQuatsM }

InitMA ==
    /\ heap \in HeapsMA
    /\ pre = heap
    /\ log = <<>>

\* p = quaternion_multiply(x, y), or the same with out= the used buffer
MultiplyApart ==
    /\ log = <<>>
    /\ \E x \in 1..2, y \in 1..2, out \in {0, 3}, g \in Garbage :
          Record(CallRec("quaternion_multiply", x, y, out, "none", g, Zero, Zero, <<>>),
                 quaternion_multiply(heap, x, y, out, "none", g),
                 <<>>)

\* quaternion_multiply(x, y, out=x) or quaternion_multiply(x, y, out=y)
MultiplyInPlace ==
    /\ Len(log) = 1
    /\ \E out \in {log[1].a, log[1].b} :
          Record(CallRec("quaternion_multiply", log[1].a, log[1].b, out, "none",
                         log[1].g, Zero, Zero, <<>>),
                 quaternion_multiply(heap, log[1].a, log[1].b, out, "none", log[1].g),
                 <<>>)

NextMA == MultiplyApart \/ MultiplyInPlace

SpecMA == InitMA /\ [][NextMA]_vars

\* C13: called with `out` one of its operands, quaternion_multiply returns
\* that buffer holding the product of the operands' original values, the one
\* the call with a separate output gave, and leaves the other operand alone.
C13_InPlaceIsTheProduct ==
    Len(log) = 2 =>
        /\ log[2].err = "none"
        /\ log[2].ret = log[2].out
        /\ heap[log[2].out].data = heap[log[1].ret].data
        /\ heap[log[2].out].data = Hamilton(pre[log[2].a].data, pre[log[2].b].data)
        /\ \A id \in {log[2].a, log[2].b} : id # log[2].out => heap[id] = pre[id]

\* a * b was written over a, where a * b shares no component with a and
\* differs from b * a
C13_Witness ==
    /\ Len(log) = 2
    /\ log[2].a = 1 /\ log[2].b = 2 /\ log[2].out = 1
    /\ heap[1].data = heap[log[1].ret].data
    /\ \A i \in 1..4 : heap[1].data[i] # pre[1].data[i]
    /\ heap[1].data # Hamilton(pre[2].data, pre[1].data)

====
